---- MODULE Spec2Model ----
(***************************************************************************)
(* Model of brian2tools/baseexport/collector.py: the collectors that turn  *)
(* Brian objects (NeuronGroup, SpikeGeneratorGroup, PoissonGroup,          *)
(* monitors, Synapses) into standard dictionaries.                         *)
(*                                                                         *)
(* A Python dict is a function with a set of string keys (an optional key  *)
(* is a key that may be missing from DOMAIN), a Python list is a sequence, *)
(* a code string is the sequence of its tokens.  `entity` is the source    *)
(* object handed to a collector, `result` what the latest call returned.   *)
(***************************************************************************)
EXTENDS Integers, Sequences, FiniteSets, TLC

VARIABLES kind, entity, run_namespace, collector, result, calls

vars == <<kind, entity, run_namespace, collector, result, calls>>

----------------------------------------------------------------------------
(* Bounds of the model *)

MaxNames == 2

MaxCustomEvents == 1

MaxObjects == 2

MaxIndices == 2

MaxCalls == 2

NamePool == <<"v", "w", "g", "h">>

EventPool == <<"custom", "burst", "extra">>

VarNames == {NamePool[i] : i \in 1..MaxNames}

CustomEvents == {EventPool[i] : i \in 1..MaxCustomEvents}

EventNames == {"spike"} \cup CustomEvents

GroupSize == 3

----------------------------------------------------------------------------
(* Python values *)

PyNone == [type |-> "NoneType"]

PyStr(s) == [type |-> "str", value |-> s]

PyQuantity(q) == [type |-> "Quantity", value |-> q]

Raise(exc) == [raised |-> exc]

Returned(r) == "raised" \notin DOMAIN r

EmptyDict == [k \in {} |-> 0]

Range(s) == {s[i] : i \in DOMAIN s}

----------------------------------------------------------------------------
(* Code strings and their identifiers *)

Keywords == {"and", "or", "not", "True", "False"}

NumberTokens == {"0", "1", "2"}

OperatorTokens == {"=", ">", "-", "/", "*"}

get_identifiers(code) ==
    {tok \in Range(code) : tok \notin Keywords \cup NumberTokens \cup OperatorTokens}

----------------------------------------------------------------------------
(* Equations *)

DIFFERENTIAL_EQUATION == "differential equation"

SUBEXPRESSION == "subexpression"

PARAMETER == "parameter"

DiffExpr(name) == <<"-", name, "/", "tau">>

SubExpr == <<"2", "*", "ms">>

SingleEquations(name, flagChoices) ==
    { [type |-> DIFFERENTIAL_EQUATION, unit |-> "volt", var_type |-> "float",
       expr |-> [code |-> DiffExpr(name)], flags |-> f] : f \in flagChoices }
    \cup
    { [type |-> SUBEXPRESSION, unit |-> "volt", var_type |-> "float",
       expr |-> [code |-> SubExpr], flags |-> f] : f \in flagChoices }
    \cup
    { [type |-> PARAMETER, unit |-> "radian", var_type |-> "integer",
       expr |-> PyNone, flags |-> f] : f \in flagChoices }

EquationSets(flagChoices) ==
    UNION { {eqs \in [names -> UNION {SingleEquations(n, flagChoices) : n \in names}] :
                \A n \in names : eqs[n] \in SingleEquations(n, flagChoices)} :
            names \in SUBSET VarNames }

diff_eq_names(equations) ==
    {n \in DOMAIN equations : equations[n].type = DIFFERENTIAL_EQUATION}

subexpr_names(equations) ==
    {n \in DOMAIN equations : equations[n].type = SUBEXPRESSION}

parameter_names(equations) ==
    {n \in DOMAIN equations : equations[n].type = PARAMETER}

Equations_identifiers(equations) ==
    UNION { get_identifiers(equations[n].expr.code) :
              n \in diff_eq_names(equations) \cup subexpr_names(equations) }
      \ DOMAIN equations

Equation_entry_expr_for_differential_only(eqs) ==
    LET base == [unit |-> eqs.unit, type |-> eqs.type, var_type |-> eqs.var_type]
        withExpr == IF eqs.type = DIFFERENTIAL_EQUATION
                    THEN ("expr" :> eqs.expr.code) @@ base
                    ELSE base
    IN  IF eqs.flags # <<>>
        THEN ("flags" :> eqs.flags) @@ withExpr
        ELSE withExpr

Equation_entry(eqs) ==
    LET base == [unit |-> eqs.unit, type |-> eqs.type, var_type |-> eqs.var_type]
        withExpr == IF eqs.type # PARAMETER
                    THEN ("expr" :> eqs.expr.code) @@ base
                    ELSE base
    IN  IF eqs.flags # <<>>
        THEN ("flags" :> eqs.flags) @@ withExpr
        ELSE withExpr

collect_Equations_without_parameters(equations) ==
    [name \in diff_eq_names(equations) \cup subexpr_names(equations)
        |-> Equation_entry(equations[name])]

collect_Equations(equations) ==
    [name \in diff_eq_names(equations) \cup subexpr_names(equations)
                \cup parameter_names(equations) |-> Equation_entry(equations[name])]

----------------------------------------------------------------------------
(* Contained objects: CodeRunner and the classes derived from it *)

Bases(class) ==
    IF class \in {"StateUpdater", "Thresholder", "Resetter", "SummedVariableUpdater"}
    THEN {class, "CodeRunner"}
    ELSE {class}

isinstance(obj, class) == class \in Bases(obj.class)

IsCodeRunner_by_isinstance(obj) == isinstance(obj, "CodeRunner")

IsCodeRunner(obj) == obj.class = "CodeRunner"

run_regularly_entry(obj) ==
    [name |-> obj.name, code |-> obj.abstract_code, dt |-> obj.clock.dt,
     when |-> obj.when, order |-> obj.order]

RECURSIVE run_regularly_loop(_, _)
run_regularly_loop(contained_objects, d) ==
    IF contained_objects = <<>> THEN d
    ELSE LET obj == Head(contained_objects)
             d1 == IF IsCodeRunner(obj)
                   THEN LET lst == IF "run_regularly" \notin DOMAIN d
                                   THEN <<>> ELSE d.run_regularly
                        IN  ("run_regularly" :> Append(lst, run_regularly_entry(obj))) @@ d
                   ELSE d
         IN  run_regularly_loop(Tail(contained_objects), d1)

RECURSIVE NeuronGroup_objects_loop(_, _)
NeuronGroup_objects_loop(contained_objects, neuron_dict) ==
    IF contained_objects = <<>> THEN neuron_dict
    ELSE LET obj == Head(contained_objects)
             d1 == run_regularly_loop(<<obj>>, neuron_dict)
             d2 == IF isinstance(obj, "StateUpdater")
                   THEN ("when" :> obj.when) @@ ("order" :> obj.order) @@ d1
                   ELSE d1
         IN  NeuronGroup_objects_loop(Tail(contained_objects), d2)

----------------------------------------------------------------------------
(* Namespace resolution and pruning *)

LibraryNames == {"ms", "Hz", "exp"}

TimestepSymbols == {"t", "dt"}

resolve_all(variables, identifiers, namespace) ==
    IF \E id \in identifiers : id \notin variables \cup DOMAIN namespace \cup LibraryNames
    THEN Raise("KeyError")
    ELSE [id \in identifiers |->
            IF id \in variables THEN "group"
            ELSE IF id \in DOMAIN namespace THEN "run_namespace"
            ELSE "library"]

with_identifiers_unconditionally(d, identifiers) ==
    ("identifiers" :> identifiers) @@ d

with_identifiers(d, identifiers) ==
    IF identifiers # {} THEN ("identifiers" :> identifiers) @@ d ELSE d

prune_identifiers(identifiers) ==
    {id \in DOMAIN identifiers : identifiers[id] # "library" /\ id \notin TimestepSymbols}

----------------------------------------------------------------------------
(* Events *)

Truthy(refractory) == refractory \notin {"False", "0*ms"}

thresholder_of(group, event) ==
    (CHOOSE i \in DOMAIN group.thresholder : group.thresholder[i].event = event)

has_reset_for_spike_only(group, event) ==
    event = "spike" /\ event \in DOMAIN group.event_codes

has_reset(group, event) == event \in DOMAIN group.event_codes

RECURSIVE Events_loop(_, _)
Events_loop(group, n) ==
    IF n = 0 THEN [event_dict |-> EmptyDict, event_identifiers |-> {}]
    ELSE LET before == Events_loop(group, n - 1)
             event == group.thresholder[n].event
             th == group.thresholder[thresholder_of(group, event)]
             threshold == [code |-> group.events[event], when |-> th.when,
                           order |-> th.order, dt |-> th.clock.dt]
             ids1 == before.event_identifiers \cup get_identifiers(group.events[event])
             hasReset == has_reset(group, event)
             reset == [code |-> group.event_codes[event],
                       when |-> group.resetter[event].when,
                       order |-> group.resetter[event].order,
                       dt |-> group.resetter[event].clock.dt]
             event_subdict == IF hasReset
                              THEN [threshold |-> threshold, reset |-> reset]
                              ELSE [threshold |-> threshold]
             ids2 == IF hasReset
                     THEN ids1 \cup get_identifiers(group.event_codes[event])
                     ELSE ids1
         IN  [event_dict |-> (event :> event_subdict) @@ before.event_dict,
              event_identifiers |-> ids2]

AttachRefractory_to_last_event(event, group) == Truthy(group.refractory)

AttachRefractory(event, group) == event = "spike" /\ Truthy(group.refractory)

collect_Events(group) ==
    LET n == Len(group.thresholder)
        loop == Events_loop(group, n)
    IN  IF n = 0 THEN Raise("UnboundLocalError")
        ELSE LET event == group.thresholder[n].event
                 event_subdict == loop.event_dict[event]
             IN  IF AttachRefractory(event, group)
                 THEN [event_dict |->
                          (event :> (("refractory" :> group.refractory) @@ event_subdict))
                             @@ loop.event_dict,
                       event_identifiers |-> loop.event_identifiers]
                 ELSE loop

----------------------------------------------------------------------------
(* NeuronGroup *)

Group_variables(group) == DOMAIN group.user_equations \cup {"t", "dt", "i", "N"}

collect_NeuronGroup(group, namespace) ==
    LET d0 == [name |-> group.name, N |-> group.N,
               user_method |-> IF group.method_choice.type = "str"
                               THEN group.method_choice ELSE PyNone,
               equations |-> collect_Equations(group.user_equations)]
        ids0 == Equations_identifiers(group.user_equations)
        events == collect_Events(group)
        hasEvents == DOMAIN group.events # {}
        d1 == IF hasEvents THEN ("events" :> events.event_dict) @@ d0 ELSE d0
        ids1 == IF hasEvents THEN ids0 \cup events.event_identifiers ELSE ids0
        resolved == resolve_all(Group_variables(group), ids1, namespace)
        identifiers == prune_identifiers(resolved)
        d2 == with_identifiers(d1, identifiers)
    IN  IF hasEvents /\ ~Returned(events) THEN events
        ELSE IF ~Returned(resolved) THEN resolved
        ELSE NeuronGroup_objects_loop(group.contained_objects, d2)

----------------------------------------------------------------------------
(* SpikeGeneratorGroup and PoissonGroup *)

collect_SpikeGenerator(spike_gen, namespace) ==
    run_regularly_loop(spike_gen.contained_objects,
        [name |-> spike_gen.name, N |-> spike_gen.N,
         indices |-> spike_gen.neuron_index,
         times |-> spike_gen.spike_time,
         period |-> spike_gen.period])

PoissonGroup_variables == {"t", "dt", "i", "N", "rates"}

collect_PoissonGroup(poisson_grp, namespace) ==
    LET d0 == [name |-> poisson_grp.name, N |-> poisson_grp.N,
               rates |-> poisson_grp.rates]
        ids0 == IF poisson_grp.rates.type = "str"
                THEN get_identifiers(poisson_grp.rates.value)
                ELSE {}
        resolved == resolve_all(PoissonGroup_variables, ids0, namespace)
        poisson_identifiers == prune_identifiers(resolved)
        d1 == with_identifiers(d0, poisson_identifiers)
    IN  IF ~Returned(resolved) THEN resolved
        ELSE run_regularly_loop(poisson_grp.contained_objects, d1)

----------------------------------------------------------------------------
(* Monitors *)

StateMonitor_record_always_indices(state_mon) ==
    [type |-> "ndarray", value |-> state_mon.record]

StateMonitor_record(state_mon) ==
    IF state_mon.record_all
    THEN [type |-> "bool", value |-> state_mon.record_all]
    ELSE [type |-> "ndarray", value |-> state_mon.record]

collect_StateMonitor(state_mon) ==
    [name |-> state_mon.name,
     source |-> state_mon.source.name,
     variables |-> state_mon.record_variables,
     record |-> StateMonitor_record(state_mon),
     n_indices |-> state_mon.n_indices,
     dt |-> state_mon.clock.dt,
     when |-> state_mon.when,
     order |-> state_mon.order]

collect_EventMonitor(event_mon) ==
    [name |-> event_mon.name,
     event |-> event_mon.event,
     source |-> event_mon.source.name,
     variables |-> event_mon.record_variables,
     record |-> event_mon.record,
     dt |-> event_mon.clock.dt,
     when |-> event_mon.when,
     order |-> event_mon.order]

collect_SpikeMonitor(spike_mon) == collect_EventMonitor(spike_mon)

collect_PopulationRateMonitor(poprate_mon) ==
    [name |-> poprate_mon.name,
     source |-> poprate_mon.source.name,
     dt |-> poprate_mon.clock.dt,
     when |-> poprate_mon.when,
     order |-> poprate_mon.order]

----------------------------------------------------------------------------
(* Synapses *)

dict_update_keeping_existing(d, other) == d @@ other

dict_update(d, other) == other @@ d

summed_variable_entry(obj) ==
    [code |-> obj.abstract_code, target |-> obj.target.name, name |-> obj.name,
     dt |-> obj.clock.dt, when |-> obj.when, order |-> obj.order]

RECURSIVE summed_variables_loop(_, _)
summed_variables_loop(contained_objects, summed_variables) ==
    IF contained_objects = <<>> THEN summed_variables
    ELSE LET obj == Head(contained_objects)
         IN  summed_variables_loop(Tail(contained_objects),
                IF isinstance(obj, "SummedVariableUpdater")
                THEN Append(summed_variables, summed_variable_entry(obj))
                ELSE summed_variables)

summed_variables_kept_between_calls ==
    IF collector = "collect_Synapses" /\ "summed_variables" \in DOMAIN result
    THEN result.summed_variables
    ELSE <<>>

summed_variables_init == <<>>

collect_Synapses(synapses, namespace) ==
    LET static == collect_Equations(synapses.equations)
        equations == IF synapses.event_driven # PyNone /\ DOMAIN synapses.event_driven # {}
                     THEN dict_update(static, collect_Equations(synapses.event_driven))
                     ELSE static
        d0 == [name |-> synapses.name,
               source |-> synapses.source.name,
               target |-> synapses.target.name,
               equations |-> equations]
        summed_variables == summed_variables_loop(synapses.contained_objects, summed_variables_init)
    IN  IF summed_variables # <<>>
        THEN ("summed_variables" :> summed_variables) @@ d0
        ELSE d0

----------------------------------------------------------------------------
(* Source objects *)

NoFlags == {<<>>}

AnyFlags == {<<>>, <<"constant">>}

EquationsObjects == EquationSets(AnyFlags)

Namespaces == {EmptyDict, [id \in {"tau", "vt", "vr"} |-> 10]}

Clock == [dt |-> "0.1*ms"]

CodeRunnerObject(class, name, code, when, order) ==
    [class |-> class, name |-> name, abstract_code |-> code, clock |-> Clock,
     when |-> when, order |-> order]

GroupObjectPool ==
    { CodeRunnerObject("CodeRunner", "run_regularly", <<"v", "=", "0">>, "start", 0),
      CodeRunnerObject("CodeRunner", "run_regularly_1", <<"w", "=", "1">>, "end", 1),
      CodeRunnerObject("StateUpdater", "stateupdater", <<>>, "groups", 0),
      CodeRunnerObject("StateUpdater", "stateupdater_1", <<>>, "start", 2),
      CodeRunnerObject("Thresholder", "thresholder", <<>>, "thresholds", 0),
      CodeRunnerObject("Resetter", "resetter", <<>>, "resets", 0) }

SeqsUpTo(S, n) == UNION {[1..k -> S] : k \in 0..n}

ContainedObjects(pool) == SeqsUpTo(pool, MaxObjects)

Threshold(event) ==
    IF event = "spike" THEN <<"v", ">", "vt">> ELSE <<"not", "t", ">", "2", "*", "ms">>

ResetCode(event) ==
    IF event = "spike" THEN <<"v", "=", "vr">> ELSE <<"w", "=", "0">>

EventOrders ==
    {ord \in SeqsUpTo(EventNames, Cardinality(EventNames)) :
        \A i, j \in DOMAIN ord : i # j => ord[i] # ord[j]}

Refractories == {"False", "0*ms", "2*ms"}

MethodChoices == {PyStr("euler"), [type |-> "tuple"]}

NeuronGroupObject(equations, ord, resets, refractory, objects, method) ==
    [name |-> "neurongroup", N |-> GroupSize, method_choice |-> method,
     user_equations |-> equations,
     events |-> [e \in Range(ord) |-> Threshold(e)],
     thresholder |-> [i \in DOMAIN ord |->
                        [event |-> ord[i], when |-> "thresholds", order |-> 0,
                         clock |-> Clock]],
     event_codes |-> [e \in resets |-> ResetCode(e)],
     resetter |-> [e \in resets |-> [when |-> "resets", order |-> 0, clock |-> Clock]],
     refractory |-> refractory,
     contained_objects |-> objects]

DefaultObjects == <<CodeRunnerObject("StateUpdater", "stateupdater", <<>>, "groups", 0)>>

NeuronGroups ==
    { NeuronGroupObject(eqs, ord, resets, refr, DefaultObjects, PyStr("euler")) :
        eqs \in EquationSets(NoFlags),
        ord \in EventOrders,
        resets \in SUBSET EventNames,
        refr \in Refractories }
    \cup
    { NeuronGroupObject([n \in {"v"} |-> CHOOSE e \in SingleEquations("v", NoFlags) :
                                            e.type = DIFFERENTIAL_EQUATION],
                        <<"spike">>, {"spike"}, "2*ms", objects, method) :
        objects \in ContainedObjects(GroupObjectPool),
        method \in MethodChoices }

SpikeGenerators ==
    { [name |-> "spikegeneratorgroup", N |-> GroupSize,
       neuron_index |-> <<0, 1>>, spike_time |-> <<1, 2>>, period |-> period,
       contained_objects |-> objects] :
        period \in {0, 5},
        objects \in ContainedObjects(GroupObjectPool) }

RateChoices ==
    { PyQuantity(10), PyStr(<<"1">>), PyStr(<<"2", "*", "Hz">>),
      PyStr(<<"tau", "*", "Hz">>) }

PoissonGroups ==
    { [name |-> "poissongroup", N |-> GroupSize, rates |-> rates,
       contained_objects |-> objects] :
        rates \in RateChoices,
        objects \in ContainedObjects(GroupObjectPool) }

IndexLists ==
    {rec \in SeqsUpTo(0..(GroupSize - 1), MaxIndices) :
        \A i, j \in DOMAIN rec : i # j => rec[i] # rec[j]}

Arange(n) == [i \in 1..n |-> i - 1]

StateMonitorObject(record_all, record) ==
    [name |-> "statemonitor", source |-> [name |-> "neurongroup"],
     record_variables |-> <<"v">>, record_all |-> record_all, record |-> record,
     n_indices |-> Len(record), clock |-> Clock, when |-> "start", order |-> 0]

StateMonitors ==
    {StateMonitorObject(TRUE, Arange(GroupSize))}
    \cup {StateMonitorObject(FALSE, rec) : rec \in IndexLists}

EventMonitors(events) ==
    { [name |-> "eventmonitor", event |-> event, source |-> [name |-> "neurongroup"],
       record_variables |-> variables, record |-> record, clock |-> Clock,
       when |-> "thresholds", order |-> 1] :
        event \in events, variables \in SeqsUpTo(VarNames, 1), record \in BOOLEAN }

PopulationRateMonitors ==
    { [name |-> "ratemonitor", source |-> [name |-> source], clock |-> Clock,
       when |-> "end", order |-> order] :
        source \in {"neurongroup", "poissongroup"}, order \in {0, 1} }

SynapsesObjectPool ==
    { [class |-> "SummedVariableUpdater", name |-> "summed_variable_" \o v,
       abstract_code |-> <<v, "=", "w">>, target |-> [name |-> "neurongroup"],
       clock |-> Clock, when |-> "groups", order |-> -5] : v \in VarNames }
    \cup
    { CodeRunnerObject("StateUpdater", "stateupdater", <<>>, "groups", 0),
      CodeRunnerObject("CodeRunner", "run_regularly", <<"w", "=", "0">>, "start", 0) }

SynapsesObject(equations, event_driven, objects) ==
    [name |-> "synapses", source |-> [name |-> "poissongroup"],
     target |-> [name |-> "neurongroup"], equations |-> equations,
     event_driven |-> event_driven, contained_objects |-> objects]

SynapsesObjects ==
    { SynapsesObject(eqs, ed, <<>>) :
        eqs \in EquationSets(NoFlags),
        ed \in {PyNone} \cup EquationSets({<<"event-driven">>}) }
    \cup
    { SynapsesObject(EmptyDict, PyNone, objects) :
        objects \in ContainedObjects(SynapsesObjectPool) }

----------------------------------------------------------------------------
(* Initial states and calls *)

Init ==
    /\ collector = "none"
    /\ result = EmptyDict
    /\ calls = 0
    /\ \/ /\ kind = "Equations"
          /\ entity \in EquationsObjects
          /\ run_namespace = EmptyDict
       \/ /\ kind = "NeuronGroup"
          /\ entity \in {g \in NeuronGroups : DOMAIN g.event_codes \subseteq DOMAIN g.events}
          /\ run_namespace \in Namespaces
       \/ /\ kind = "SpikeGeneratorGroup"
          /\ entity \in SpikeGenerators
          /\ run_namespace = PyNone
       \/ /\ kind = "PoissonGroup"
          /\ entity \in PoissonGroups
          /\ run_namespace \in Namespaces
       \/ /\ kind = "StateMonitor"
          /\ entity \in StateMonitors
          /\ run_namespace = PyNone
       \/ /\ kind = "SpikeMonitor"
          /\ entity \in EventMonitors({"spike"})
          /\ run_namespace = PyNone
       \/ /\ kind = "EventMonitor"
          /\ entity \in EventMonitors(EventNames)
          /\ run_namespace = PyNone
       \/ /\ kind = "PopulationRateMonitor"
          /\ entity \in PopulationRateMonitors
          /\ run_namespace = PyNone
       \/ /\ kind = "Synapses"
          /\ entity \in SynapsesObjects
          /\ run_namespace = PyNone

Call(k, name, value) ==
    /\ kind = k
    /\ calls < MaxCalls
    /\ calls' = calls + 1
    /\ collector' = name
    /\ result' = value
    /\ UNCHANGED <<kind, entity, run_namespace>>

Call_collect_Equations ==
    Call("Equations", "collect_Equations", collect_Equations(entity))

Call_collect_Events ==
    Call("NeuronGroup", "collect_Events", collect_Events(entity))

Call_collect_NeuronGroup ==
    Call("NeuronGroup", "collect_NeuronGroup", collect_NeuronGroup(entity, run_namespace))

Call_collect_SpikeGenerator ==
    Call("SpikeGeneratorGroup", "collect_SpikeGenerator",
         collect_SpikeGenerator(entity, run_namespace))

Call_collect_PoissonGroup ==
    Call("PoissonGroup", "collect_PoissonGroup",
         collect_PoissonGroup(entity, run_namespace))

Call_collect_StateMonitor ==
    Call("StateMonitor", "collect_StateMonitor", collect_StateMonitor(entity))

Call_collect_SpikeMonitor ==
    Call("SpikeMonitor", "collect_SpikeMonitor", collect_SpikeMonitor(entity))

Call_collect_EventMonitor ==
    Call("EventMonitor", "collect_EventMonitor", collect_EventMonitor(entity))

Call_collect_PopulationRateMonitor ==
    Call("PopulationRateMonitor", "collect_PopulationRateMonitor",
         collect_PopulationRateMonitor(entity))

Call_collect_Synapses ==
    Call("Synapses", "collect_Synapses", collect_Synapses(entity, run_namespace))

Next ==
    \/ Call_collect_Equations
    \/ Call_collect_Events
    \/ Call_collect_NeuronGroup
    \/ Call_collect_SpikeGenerator
    \/ Call_collect_PoissonGroup
    \/ Call_collect_StateMonitor
    \/ Call_collect_SpikeMonitor
    \/ Call_collect_EventMonitor
    \/ Call_collect_PopulationRateMonitor
    \/ Call_collect_Synapses

Spec == Init /\ [][Next]_vars

----------------------------------------------------------------------------
(* Records the claims are about *)

PopulationCollectors ==
    {"collect_NeuronGroup", "collect_SpikeGenerator", "collect_PoissonGroup"}

EquationMappings ==
    IF collector = "collect_Equations" THEN {result}
    ELSE IF collector \in {"collect_NeuronGroup", "collect_Synapses"} /\ Returned(result)
    THEN {result.equations}
    ELSE {}

EventMappings ==
    IF collector = "collect_Events" /\ Returned(result) THEN {result.event_dict}
    ELSE IF collector = "collect_NeuronGroup" /\ Returned(result)
            /\ "events" \in DOMAIN result
    THEN {result.events}
    ELSE {}

----------------------------------------------------------------------------
(* C1: the key set of collect_Equations(E) is exactly the union of E's
   differential-equation, subexpression and parameter names: every such
   name is a key and no other key is present. *)
C1_KeySet ==
    collector = "collect_Equations" =>
        /\ \A n \in DOMAIN entity :
              entity[n].type \in {DIFFERENTIAL_EQUATION, SUBEXPRESSION, PARAMETER}
                 => n \in DOMAIN result
        /\ \A n \in DOMAIN result :
              /\ n \in DOMAIN entity
              /\ entity[n].type \in {DIFFERENTIAL_EQUATION, SUBEXPRESSION, PARAMETER}

C1_Witness ==
    /\ collector = "collect_Equations"
    /\ \E a, b \in DOMAIN result :
          /\ entity[a].type = PARAMETER
          /\ entity[b].type # PARAMETER

(* C2: every equation entry carries an 'expr' field if and only if its
   'type' is not parameter, in the mapping returned by collect_Equations,
   in a population record and in the merged mapping of a synapse record. *)
C2_ExprIffNotParameter ==
    \A m \in EquationMappings : \A n \in DOMAIN m :
        ("expr" \in DOMAIN m[n]) <=> (m[n].type # PARAMETER)

C2_Witness ==
    /\ collector = "collect_Synapses"
    /\ \E a, b \in DOMAIN result.equations :
          /\ result.equations[a].type = PARAMETER
          /\ "expr" \notin DOMAIN result.equations[a]
          /\ result.equations[b].type = SUBEXPRESSION
          /\ "expr" \in DOMAIN result.equations[b]
          /\ a \in DOMAIN entity.equations
          /\ entity.event_driven # PyNone
          /\ b \in DOMAIN entity.event_driven

(* C3: in a NeuronGroup or PoissonGroup record the 'identifiers' key is
   absent when the resolved and pruned identifier set is empty, and when
   the key is present its value is that non-empty pruned set; for a
   PoissonGroup whose rates are not a code string the key is absent. *)
RawIdentifiers ==
    IF kind = "NeuronGroup"
    THEN Equations_identifiers(entity.user_equations)
         \cup UNION {get_identifiers(entity.events[e]) : e \in DOMAIN entity.events}
         \cup UNION {get_identifiers(entity.event_codes[e]) : e \in DOMAIN entity.event_codes}
    ELSE IF entity.rates.type = "str" THEN get_identifiers(entity.rates.value) ELSE {}

LocalVariables ==
    IF kind = "NeuronGroup" THEN Group_variables(entity) ELSE PoissonGroup_variables

PrunedIdentifiers ==
    prune_identifiers(resolve_all(LocalVariables, RawIdentifiers, run_namespace))

C3_IdentifiersKey ==
    (collector \in {"collect_NeuronGroup", "collect_PoissonGroup"} /\ Returned(result)) =>
        /\ PrunedIdentifiers = {} => "identifiers" \notin DOMAIN result
        /\ "identifiers" \in DOMAIN result =>
              /\ result.identifiers # {}
              /\ result.identifiers = PrunedIdentifiers
        /\ (kind = "PoissonGroup" /\ entity.rates.type # "str") =>
              "identifiers" \notin DOMAIN result

C3_Witness ==
    /\ collector = "collect_NeuronGroup"
    /\ Returned(result)
    /\ RawIdentifiers # {}
    /\ PrunedIdentifiers = {}
    /\ "identifiers" \notin DOMAIN result

(* C4: a 'refractory' field appears in an event record only if 'spike' is
   a defined event, and then only inside the record of 'spike'. *)
C4_RefractoryOnlyInSpike ==
    \A m \in EventMappings : \A e \in DOMAIN m :
        "refractory" \in DOMAIN m[e] =>
            /\ e = "spike"
            /\ "spike" \in DOMAIN entity.events

C4_Witness ==
    /\ collector = "collect_Events"
    /\ Returned(result)
    /\ DOMAIN result.event_dict = EventNames
    /\ "refractory" \in DOMAIN result.event_dict["spike"]
    /\ \A e \in CustomEvents : "refractory" \notin DOMAIN result.event_dict[e]

(* C5: when 'spike' is a defined event and the refractory specification is
   set, collect_Events emits the refractory value in the record of 'spike'
   whatever the position of 'spike' in the iteration of the events. *)
C5_RefractoryAnyOrder ==
    (/\ collector = "collect_Events"
     /\ "spike" \in DOMAIN entity.events
     /\ Truthy(entity.refractory)) =>
        /\ Returned(result)
        /\ "refractory" \in DOMAIN result.event_dict["spike"]
        /\ result.event_dict["spike"].refractory = entity.refractory

(* C6: the equation mapping of a synapse record has the static and the
   event-driven names as keys; a name defined in both groups carries the
   entry of its event-driven definition, a name defined only in the static
   group carries its static entry. *)
EventDrivenNames ==
    IF entity.event_driven = PyNone THEN {} ELSE DOMAIN entity.event_driven

ExpectedEntry(eqs) ==
    [k \in {"unit", "type", "var_type"}
           \cup (IF eqs.type = PARAMETER THEN {} ELSE {"expr"})
           \cup (IF eqs.flags = <<>> THEN {} ELSE {"flags"}) |->
        CASE k = "unit" -> eqs.unit
          [] k = "type" -> eqs.type
          [] k = "var_type" -> eqs.var_type
          [] k = "expr" -> eqs.expr.code
          [] k = "flags" -> eqs.flags]

C6_EventDrivenOverwrites ==
    collector = "collect_Synapses" =>
        /\ DOMAIN result.equations = DOMAIN entity.equations \cup EventDrivenNames
        /\ \A n \in EventDrivenNames :
              result.equations[n] = ExpectedEntry(entity.event_driven[n])
        /\ \A n \in DOMAIN entity.equations \ EventDrivenNames :
              result.equations[n] = ExpectedEntry(entity.equations[n])

C6_Witness ==
    /\ collector = "collect_Synapses"
    /\ \E n, m \in DOMAIN entity.equations :
          /\ n \in EventDrivenNames
          /\ entity.equations[n].type # entity.event_driven[n].type
          /\ result.equations[n].type = entity.event_driven[n].type
          /\ m \notin EventDrivenNames

(* C7: the 'record' field of a StateMonitor record is the boolean true when
   the monitor records all indices, and otherwise the monitor's index list
   unchanged; a record-all monitor never yields an index list. *)
C7_RecordSelector ==
    collector = "collect_StateMonitor" =>
        IF entity.record_all
        THEN /\ result.record.type = "bool"
             /\ result.record.value = TRUE
        ELSE /\ result.record.type = "ndarray"
             /\ result.record.value = entity.record

C7_Witness ==
    /\ collector = "collect_StateMonitor"
    /\ ~entity.record_all
    /\ Len(entity.record) = MaxIndices
    /\ entity.record[1] > entity.record[2]
    /\ result.record.value = entity.record

(* C8: a collector called again on the same source object and run-time
   namespace returns a record equal to the one it returned before, and no
   call modifies the source object or the namespace. *)
C8_Idempotent ==
    [][ /\ entity' = entity
        /\ run_namespace' = run_namespace
        /\ (calls >= 1 /\ collector' = collector) => result' = result ]_vars

C8_Witness ==
    /\ calls >= 2
    /\ collector = "collect_Synapses"
    /\ "summed_variables" \in DOMAIN result
    /\ Len(result.summed_variables) = MaxObjects

(* C9: 'run_regularly' lists one entry for each contained object whose class
   is exactly CodeRunner, in the order of the contained objects, and none
   for a derived class; the key is absent when there is no such object.  A
   contained StateUpdater gives the NeuronGroup record its 'when' and
   'order' and no entry of 'run_regularly'. *)
ExactCodeRunners ==
    SelectSeq(entity.contained_objects, LAMBDA obj : obj.class = "CodeRunner")

StateUpdaters ==
    SelectSeq(entity.contained_objects, LAMBDA obj : obj.class = "StateUpdater")

C9_RunRegularly ==
    (collector \in PopulationCollectors /\ Returned(result)) =>
        /\ ("run_regularly" \in DOMAIN result) <=> (ExactCodeRunners # <<>>)
        /\ "run_regularly" \in DOMAIN result =>
              /\ Len(result.run_regularly) = Len(ExactCodeRunners)
              /\ \A i \in DOMAIN ExactCodeRunners :
                    result.run_regularly[i] =
                        [name |-> ExactCodeRunners[i].name,
                         code |-> ExactCodeRunners[i].abstract_code,
                         dt |-> ExactCodeRunners[i].clock.dt,
                         when |-> ExactCodeRunners[i].when,
                         order |-> ExactCodeRunners[i].order]
        /\ (collector = "collect_NeuronGroup" /\ StateUpdaters # <<>>) =>
              /\ result.when = StateUpdaters[Len(StateUpdaters)].when
              /\ result.order = StateUpdaters[Len(StateUpdaters)].order

C9_Witness ==
    /\ collector = "collect_NeuronGroup"
    /\ Returned(result)
    /\ Len(entity.contained_objects) = MaxObjects
    /\ entity.contained_objects[1].class = "StateUpdater"
    /\ entity.contained_objects[MaxObjects].class = "CodeRunner"
    /\ Len(result.run_regularly) < MaxObjects
    /\ result.when = entity.contained_objects[1].when

(* C10: collect_Events emits, for every defined event, a record with a
   'threshold' sub-record, and a 'reset' sub-record exactly when reset code
   exists for that event; the identifier set is the union of the
   identifiers of the emitted threshold and reset codes. *)
C10_ThresholdAndReset ==
    (collector = "collect_Events" /\ Returned(result)) =>
        LET m == result.event_dict
        IN  /\ DOMAIN m = DOMAIN entity.events
            /\ \A e \in DOMAIN m :
                  /\ "threshold" \in DOMAIN m[e]
                  /\ m[e].threshold.code = entity.events[e]
                  /\ ("reset" \in DOMAIN m[e]) <=> (e \in DOMAIN entity.event_codes)
                  /\ "reset" \in DOMAIN m[e] => m[e].reset.code = entity.event_codes[e]
            /\ result.event_identifiers =
                  UNION {get_identifiers(m[e].threshold.code) : e \in DOMAIN m}
                  \cup UNION {get_identifiers(m[e].reset.code) :
                                e \in {x \in DOMAIN m : "reset" \in DOMAIN m[x]}}

C10_Witness ==
    /\ collector = "collect_Events"
    /\ Returned(result)
    /\ \E a, b \in DOMAIN result.event_dict :
          /\ "reset" \in DOMAIN result.event_dict[a]
          /\ "reset" \notin DOMAIN result.event_dict[b]
    /\ "vr" \in result.event_identifiers
    /\ "t" \in result.event_identifiers

====
